---- MODULE Spec2Model ----
(***************************************************************************)
(* Model of the 42-api Raycast extension.                                  *)
(*                                                                         *)
(* Part 1: the menu-bar command (src/src/lib/types.ts, lines 74-247) and   *)
(* its confetti celebration effect.  One Command instance is mounted at a  *)
(* time; every render whose effect dependencies changed calls the async    *)
(* function checkAndCelebrate, which is NOT awaited by the effect, so      *)
(* several invocations can be suspended at their await points at once.     *)
(* Every await of checkAndCelebrate is a separate step of the model:       *)
(*   getItem  -> LocalStorage.getItem resolves, the decision is computed   *)
(*   confetti -> open(...) inside triggerConfetti settles                  *)
(*   setItem  -> LocalStorage.setItem is applied to the store              *)
(*                                                                         *)
(* The hooks useUser / useLocationStats and getPreferenceValues are read   *)
(* anew by every render: their values are inputs of the render actions    *)
(* and live on only in the closures of the cycles the render started.      *)
(*                                                                         *)
(* Dates are numbered 1..MaxDay; the empty date string "" is NoDate.       *)
(* JSON.stringify/JSON.parse of the stored record (two date strings and    *)
(* an integer) return the record that was written, so the stored item is   *)
(* kept as the record itself: <<>> is the absent item, <<r>> a stored r.   *)
(*                                                                         *)
(* Part 2: the goal the menu-bar command coerces from its preferences.     *)
(* Part 3: the user grid with pinned users (src/unnamed/part_001).         *)
(* Part 4: the login search commands (src/unnamed/part_000 and             *)
(* src/src/check-logtime-history.tsx).                                     *)
(* Part 5: the views the login search commands show for a failed fetch.    *)
(*                                                                         *)
(* The commands are separate programs that share no state, so each part    *)
(* has its own specification (Spec, GoalSpec, PinSpec, PinLiveSpec,        *)
(* SearchSpec, ErrorSpec) in which the variables of the other parts stay   *)
(* at rest.                                                                *)
(***************************************************************************)
EXTENDS Integers, Sequences, FiniteSets, Bags, TLC

\* ------------------------------------------------------------------ bounds
MaxDay == 2
MaxInFlight == 2
MaxFires == 2

NoDate == 0
Dates == 1..MaxDay

\* Preference strings a user may have typed (undefined is modelled as "").
GoalHoursPrefs == {"0", "1"}
GoalMinutesPrefs == {"30"}

\* todayLogtimeSeconds readings the stats hook may report.
LogtimeReadings == {0, 5400, 23400}

LaunchTypes == {"background", "userInitiated"}

\* The user grid: logins, and the snapshots of a login fetched over time.
MaxVersion == 1
MaxPending == 3
MaxAuthCalls == 2
Logins == {"a", "b"}
Versions == 1..MaxVersion
NoEntry == 0
Users == [login : Logins, ver : Versions]

VARIABLES
    today,                \* the wall-clock calendar date
    launchType,           \* environment.launchType of the running launch
    todayStr,             \* useMemo(..., []) : date captured at mount
    confettiState,        \* LocalStorage item "confetti-state"
    cycles,               \* bag of suspended checkAndCelebrate invocations
    fireCount,            \* history: triggerConfetti calls per date
    evaluatedDates,       \* history: dates on which a cycle has read the store
    overlapped,           \* history: a cycle started while another was suspended
    last                  \* history: the latest effect run or cycle step

\* The goal preferences of the menu-bar command, followed on their own.
VARIABLES
    goalPrefs,            \* the goalHours / goalMinutes strings as configured
    goalUsed              \* <<>> or <<r>>: the goal the latest render computed

goalVars == <<goalPrefs, goalUsed>>

\* The user grid with pinned users (src/unnamed/part_001).
VARIABLES
    storedLogins,         \* LocalStorage item "pinned-users", parsed ([] when absent)
    storedCache,          \* LocalStorage item "pinned-users-cache", parsed
    pinnedUserLogins,     \* useState: the in-memory pin list
    pinnedUsersCache,     \* useState: the in-memory login -> User cache
    pinLoad,              \* loadPinnedUsers: "list", "cache" (awaits) or "done"
    searching,            \* searchText.length > 0
    pinFetch,             \* usePinnedUsers: <<>> or <<logins>> being fetched
    detail,               \* <<>> or <<d>>: the pushed UserDetail and its props
    pending,              \* LocalStorage.setItem calls not yet settled, in call order
    hist,                 \* history: the latest togglePin call(s) on one login
    pinLast,              \* history: how the latest setItem settled
    listed                \* history: the logins the persisted list has ever held

pinVars == <<storedLogins, storedCache, pinnedUserLogins, pinnedUsersCache, pinLoad,
             searching, pinFetch, detail, pending, hist, pinLast, listed>>

\* The login search commands (src/unnamed/part_000, check-logtime-history.tsx).
VARIABLES
    searchText,           \* useState: the text of the search bar
    queryText,            \* useState: the login handed to useUser
    authState,            \* the Credential Manager's state as the hook reports it
    authCalls,            \* authenticate() calls that have not returned
    authFlows,            \* interactive authorization flows under way
    waiting,              \* performSearch calls suspended on authenticate(), their text
    skippedAuth,          \* history: a performSearch ran while authenticating
    gridSearchText,       \* useState of the grid command: the text of its search bar
    usersQuery            \* <<>> or <<q>>: the query useUsers executes for the grid

gridVars == <<gridSearchText, usersQuery>>

searchVars == <<searchText, queryText, authState, authCalls, authFlows, waiting,
                skippedAuth, gridVars>>

\* What the login search commands show once a fetch has failed.
VARIABLES
    command,              \* "search" (part_000) or "history" (check-logtime-history.tsx)
    userError,            \* the error of useUser, NoError when null
    statsError,           \* the error of useLocationStats, NoError when null
    view                  \* the List.EmptyView of the latest render, <<>> when none

errVars == <<command, userError, statsError, view>>

\* Everything that is not part of the celebration tracker.
otherVars == <<goalVars, pinVars, searchVars, errVars>>

vars == <<today, launchType, todayStr, confettiState, cycles, fireCount,
          evaluatedDates, overlapped, last, otherVars>>

\* ------------------------------------------------------- pure definitions

\* Number(s) for the preference strings of the model; <<>> stands for NaN.
ToNumber(s) ==
    CASE s = "0" -> <<0>>
      [] s = "1" -> <<1>>
      [] s = "30" -> <<30>>
      [] s = "6" -> <<6>>
      [] s = "7" -> <<7>>
      [] s = "39" -> <<39>>
      [] s = "59" -> <<59>>
      [] s = "" -> <<0>>
      [] OTHER -> <<>>

\* v || d : the default replaces NaN and 0 (both falsy).
OrDefault(v, d) == IF v = <<>> \/ v = <<0>> THEN d ELSE v[1]

DefaultGoalHours == 6
DefaultGoalMinutes == 39

goalHours(prefs) == OrDefault(ToNumber(prefs.goalHours), DefaultGoalHours)
goalMinutes(prefs) == OrDefault(ToNumber(prefs.goalMinutes), DefaultGoalMinutes)

Preferences == [goalHours : GoalHoursPrefs, goalMinutes : GoalMinutesPrefs]

\* What the two hooks hand to a render; no stats means a zero logtime.
HookValues ==
    {h \in [isLoadingUser : BOOLEAN, isLoadingStats : BOOLEAN, stats : BOOLEAN,
            todayLogtimeSeconds : LogtimeReadings] :
        ~h.stats => h.todayLogtimeSeconds = 0}

isBackgroundMode(lt) == lt = "background"

isLoading(h) == h.isLoadingUser \/ h.isLoadingStats

\* calculateGoalTimes(...).goalReached
calculateGoalTimes(logtime, gh, gm) == logtime >= gh * 3600 + gm * 60

DefaultState == [lastTriggeredDate |-> NoDate, lastLogtimeSeconds |-> 0, lastLogtimeDate |-> NoDate]

\* storedState ? JSON.parse(storedState) : default
ParseStored(item) == IF item = <<>> THEN DefaultState ELSE item[1]

GoalSeconds(gh, gm) == gh * 3600 + gm * 60

IsNewDay(state, D) == state.lastLogtimeDate # D

\* Variant: the new-day reset of the last known logtime is forgotten.
LastKnownLogtime_IgnoresNewDay(state, D) == state.lastLogtimeSeconds

LastKnownLogtime(state, D) == IF IsNewDay(state, D) THEN 0 ELSE state.lastLogtimeSeconds

\* Variant: the already-celebrated-today test is dropped.
ShouldTrigger_NoDateCheck(goalReached, state, D, goalSeconds) ==
    /\ goalReached
    /\ LastKnownLogtime(state, D) < goalSeconds

\* Variant: a last known logtime equal to the goal still counts as below it.
ShouldTrigger_Lte(goalReached, state, D, goalSeconds) ==
    /\ goalReached
    /\ state.lastTriggeredDate # D
    /\ LastKnownLogtime(state, D) <= goalSeconds

\* Variant: the last-known-logtime guard is dropped.
ShouldTrigger_NoThreshold(goalReached, state, D, goalSeconds) ==
    /\ goalReached
    /\ state.lastTriggeredDate # D

ShouldTrigger(goalReached, state, D, goalSeconds) ==
    /\ goalReached
    /\ state.lastTriggeredDate # D
    /\ LastKnownLogtime(state, D) < goalSeconds

TriggeredState(D, logtime) ==
    [lastTriggeredDate |-> D, lastLogtimeSeconds |-> logtime, lastLogtimeDate |-> D]

NeedsUpdate(state, D, logtime) ==
    state.lastLogtimeSeconds # logtime \/ state.lastLogtimeDate # D

\* Variant: the no-fire update forgets to refresh lastLogtimeDate.
UpdatedState_KeepsDate(state, D, logtime) ==
    [state EXCEPT !.lastLogtimeSeconds = logtime]

UpdatedState(state, D, logtime) ==
    [state EXCEPT !.lastLogtimeSeconds = logtime, !.lastLogtimeDate = D]

\* Variant: the early return does not look at the loading flags.
Skipped_NoLoadingCheck(lt, h) == isBackgroundMode(lt) \/ ~h.stats

\* Variant: the early return does not look at the launch type.
Skipped_NoBackgroundCheck(lt, h) == isLoading(h) \/ ~h.stats

\* The early return of checkAndCelebrate.
Skipped(lt, h) == isBackgroundMode(lt) \/ isLoading(h) \/ ~h.stats

\* --------------------------------------------------------------- cycles

\* One checkAndCelebrate invocation: its closure, its position and the locals
\* it keeps across its awaits.
IdleCycle ==
    [pc |-> "idle", D |-> NoDate, logtime |-> 0, gh |-> 0, gm |-> 0,
     goalReached |-> FALSE, fired |-> FALSE, confettiOk |-> TRUE, pending |-> DefaultState]

NewCycle(D, logtime, gh, gm) ==
    [IdleCycle EXCEPT !.pc = "getItem", !.D = D, !.logtime = logtime, !.gh = gh, !.gm = gm,
                      !.goalReached = calculateGoalTimes(logtime, gh, gm)]

InFlight == BagCardinality(cycles)

Replace(c, next) ==
    IF next.pc = "idle"
    THEN cycles (-) SetToBag({c})
    ELSE (cycles (-) SetToBag({c})) (+) SetToBag({next})

NoEvent ==
    [kind |-> "none", loading |-> FALSE, stats |-> FALSE, ok |-> TRUE,
     cyc |-> IdleCycle, before |-> <<>>, first |-> FALSE]

\* The effect of a render: checkAndCelebrate() up to its first await.
\* lt and D are the launch type and todayStr of the mount, p and h the
\* preferences and hook values of the render that runs the effect.
RunEffect(lt, D, p, h) ==
    IF Skipped(lt, h)
    THEN /\ cycles' = cycles
         /\ overlapped' = overlapped
         /\ last' = [NoEvent EXCEPT !.kind = "skip", !.loading = isLoading(h),
                                    !.stats = h.stats]
    ELSE /\ InFlight < MaxInFlight
         /\ cycles' = cycles (+) SetToBag({NewCycle(D, h.todayLogtimeSeconds,
                                                    goalHours(p), goalMinutes(p))})
         /\ overlapped' = (overlapped \/ InFlight > 0)
         /\ last' = [NoEvent EXCEPT !.kind = "start", !.loading = isLoading(h),
                                    !.stats = h.stats]

\* ---------------------------------------------------------------- actions

\* The goal preferences are not followed: nothing configured, nothing computed.
GoalIdle ==
    /\ goalPrefs = [goalHours |-> "", goalMinutes |-> ""]
    /\ goalUsed = <<>>

\* The user grid is not followed: never mounted, nothing stored.
PinIdle ==
    /\ storedLogins = <<>>
    /\ storedCache = [l \in Logins |-> NoEntry]
    /\ pinnedUserLogins = <<>>
    /\ pinnedUsersCache = [l \in Logins |-> NoEntry]
    /\ pinLoad = "list"
    /\ searching = FALSE
    /\ pinFetch = <<>>
    /\ detail = <<>>
    /\ pending = <<>>
    /\ hist = <<>>
    /\ pinLast = "none"
    /\ listed = {}

\* The login search is not followed: nothing typed, no token.
SearchIdle ==
    /\ searchText = ""
    /\ queryText = ""
    /\ authState = "NoToken"
    /\ authCalls = 0
    /\ authFlows = 0
    /\ waiting = <<>>
    /\ skippedAuth = FALSE
    /\ gridSearchText = ""
    /\ usersQuery = <<>>

NoError == [kind |-> "none", message |-> <<>>]

\* No failed fetch is followed.
ErrIdle ==
    /\ command = "search"
    /\ userError = NoError
    /\ statsError = NoError
    /\ view = <<>>

Init ==
    /\ today = 1
    /\ launchType \in LaunchTypes
    /\ todayStr = 1
    /\ confettiState = <<>>
    /\ cycles = EmptyBag
    /\ fireCount = [d \in Dates |-> 0]
    /\ evaluatedDates = {}
    /\ overlapped = FALSE
    /\ last = NoEvent
    /\ GoalIdle
    /\ PinIdle
    /\ SearchIdle
    /\ ErrIdle

\* The calendar date advances.
Midnight ==
    /\ today < MaxDay
    /\ today' = today + 1
    /\ UNCHANGED <<launchType, todayStr, confettiState, cycles, fireCount, evaluatedDates,
                   overlapped, last>>
    /\ UNCHANGED otherVars

\* What the hooks hand to the first render of a mount: nothing fetched yet, the
\* user fetch running when it is executed (execute: isBackgroundMode && ...).
InitialHookValues(lt) ==
    [isLoadingUser |-> isBackgroundMode(lt), isLoadingStats |-> FALSE, stats |-> FALSE,
     todayLogtimeSeconds |-> 0]

\* The command is launched: a fresh mount of Command and its first render.
Launch(lt, p) ==
    /\ launchType' = lt
    /\ todayStr' = today
    /\ RunEffect(lt, today, p, InitialHookValues(lt))
    /\ UNCHANGED <<today, confettiState, fireCount, evaluatedDates>>
    /\ UNCHANGED otherVars

\* The hooks or the preferences report new values: the mounted component
\* re-renders and the effect runs.
Render(p, h) ==
    /\ RunEffect(launchType, todayStr, p, h)
    /\ UNCHANGED <<today, launchType, todayStr, confettiState, fireCount, evaluatedDates>>
    /\ UNCHANGED otherVars

\* The cycle after LocalStorage.getItem resolved with item: the synchronous run up
\* to the next await (or to the end when nothing is to be written).
Decide(c, item) ==
    LET state == ParseStored(item)
        goalSeconds == GoalSeconds(c.gh, c.gm)
    IN  IF ShouldTrigger(c.goalReached, state, c.D, goalSeconds)
        THEN [c EXCEPT !.pc = "confetti", !.fired = TRUE]
        ELSE IF NeedsUpdate(state, c.D, c.logtime)
             THEN [c EXCEPT !.pc = "setItem", !.pending = UpdatedState(state, c.D, c.logtime)]
             ELSE [c EXCEPT !.pc = "idle"]

GetItemResolves(c) ==
    /\ c.pc = "getItem"
    /\ LET next == Decide(c, confettiState)
       IN  /\ next.fired => fireCount[c.D] < MaxFires
           /\ cycles' = Replace(c, next)
           /\ fireCount' = IF next.fired THEN [fireCount EXCEPT ![c.D] = @ + 1] ELSE fireCount
           /\ last' = [NoEvent EXCEPT !.kind = "decide", !.cyc = next,
                                      !.before = confettiState,
                                      !.first = (c.D \notin evaluatedDates)]
    /\ evaluatedDates' = evaluatedDates \cup {c.D}
    /\ UNCHANGED <<today, launchType, todayStr, confettiState, overlapped>>
    /\ UNCHANGED otherVars

\* Variant: a rejection of open(...) is not caught and ends the cycle.
AfterConfetti_AbortsOnFailure(c, ok) ==
    IF ok
    THEN [c EXCEPT !.pc = "setItem", !.confettiOk = ok,
                   !.pending = TriggeredState(c.D, c.logtime)]
    ELSE [c EXCEPT !.pc = "idle"]

\* triggerConfetti after open(...) settled: a rejection is caught and logged.
AfterConfetti(c, ok) ==
    [c EXCEPT !.pc = "setItem", !.confettiOk = ok, !.pending = TriggeredState(c.D, c.logtime)]

ConfettiSettles(c, ok) ==
    /\ c.pc = "confetti"
    /\ cycles' = Replace(c, AfterConfetti(c, ok))
    /\ last' = [NoEvent EXCEPT !.kind = "confetti", !.ok = ok, !.cyc = AfterConfetti(c, ok),
                               !.before = confettiState]
    /\ UNCHANGED <<today, launchType, todayStr, confettiState, fireCount, evaluatedDates,
                   overlapped>>
    /\ UNCHANGED otherVars

\* LocalStorage.setItem("confetti-state", ...) is applied and the cycle ends.
SetItemResolves(c) ==
    /\ c.pc = "setItem"
    /\ confettiState' = <<c.pending>>
    /\ cycles' = Replace(c, IdleCycle)
    /\ last' = [NoEvent EXCEPT !.kind = "write", !.cyc = c, !.before = confettiState]
    /\ UNCHANGED <<today, launchType, todayStr, fireCount, evaluatedDates, overlapped>>
    /\ UNCHANGED otherVars

Next ==
    \/ Midnight
    \/ \E lt \in LaunchTypes, p \in Preferences : Launch(lt, p)
    \/ \E p \in Preferences, h \in HookValues : Render(p, h)
    \/ \E c \in BagToSet(cycles) : GetItemResolves(c)
    \/ \E c \in BagToSet(cycles), ok \in BOOLEAN : ConfettiSettles(c, ok)
    \/ \E c \in BagToSet(cycles) : SetItemResolves(c)

Spec == Init /\ [][Next]_vars

trackerVars == <<today, launchType, todayStr, confettiState, cycles, fireCount,
                 evaluatedDates, overlapped, last>>

\* The tracker is not followed: a user-initiated mount that has run no cycle.
TrackerIdle ==
    /\ today = 1
    /\ launchType = "userInitiated"
    /\ todayStr = 1
    /\ confettiState = <<>>
    /\ cycles = EmptyBag
    /\ fireCount = [d \in Dates |-> 0]
    /\ evaluatedDates = {}
    /\ overlapped = FALSE
    /\ last = NoEvent

\* ------------------------------------------------ part 2: goal preferences
\* The goal the menu-bar command derives from the preference strings
\* (types.ts:120-125) for every string a user may have configured.

HoursStrings == {"", "abc", "0", "1", "6", "7"}
MinutesStrings == {"", "x", "0", "30", "39", "59"}

\* The strings that are decimal numerals.
NumericStrings == {"0", "1", "6", "7", "30", "39", "59"}

\* calculateGoalTimes is handed the coerced goal and the reading of the render.
RenderedGoal(prefs, logtime) ==
    [goalHours |-> goalHours(prefs), goalMinutes |-> goalMinutes(prefs),
     goalReached |-> calculateGoalTimes(logtime, goalHours(prefs), goalMinutes(prefs)),
     logtime |-> logtime]

GoalInit ==
    /\ goalPrefs \in [goalHours : HoursStrings, goalMinutes : MinutesStrings]
    /\ goalUsed = <<>>
    /\ TrackerIdle
    /\ PinIdle
    /\ SearchIdle
    /\ ErrIdle

\* The user edits the preferences; the command has not rendered with them yet.
ChangePreferences(h, m) ==
    /\ goalPrefs' = [goalHours |-> h, goalMinutes |-> m]
    /\ goalUsed' = <<>>
    /\ UNCHANGED <<trackerVars, pinVars, searchVars, errVars>>

\* A render of the command: the goal is coerced from the preferences and
\* handed to the Goal Calculator with the current reading.
RenderGoal(logtime) ==
    /\ goalUsed' = <<RenderedGoal(goalPrefs, logtime)>>
    /\ UNCHANGED <<goalPrefs, trackerVars, pinVars, searchVars, errVars>>

GoalNext ==
    \/ \E h \in HoursStrings, m \in MinutesStrings : ChangePreferences(h, m)
    \/ \E logtime \in LogtimeReadings : RenderGoal(logtime)

GoalSpec == GoalInit /\ [][GoalNext]_vars

\* ------------------------------------------------- part 3: pinned users
\* The grid command of src/unnamed/part_001.  A cached User is kept as the
\* version of its snapshot; JSON.stringify / JSON.parse of a list of logins
\* and of a login -> User record return what was written.
\*
\* savePinnedUsers, cacheUser and removeCachedUser are async and are never
\* awaited by their callers: each call computes its value at once from the
\* state its closure holds and suspends on LocalStorage.setItem.  The write
\* and the setState that follows its await are one step, taken in call
\* order.  The grid's handlers are those of the latest render; the props of
\* the pushed UserDetail (user, isPinned, onTogglePin, onUserUpdate) are the
\* element built by the render that showed the action, so onTogglePin and
\* onUserUpdate hold the pin list and the cache of that render.

Includes(logins, login) == \E i \in DOMAIN logins : logins[i] = login

\* pinnedUserLogins.filter((l) => l !== login)
Without(logins, login) == SelectSeq(logins, LAMBDA l : l # login)

\* The lists of logins without repetition.
PinLists ==
    {<<>>} \cup {<<l>> : l \in Logins}
           \cup {<<l, m>> : <<l, m>> \in {p \in Logins \X Logins : p[1] # p[2]}}

Caches == [Logins -> {NoEntry} \cup Versions]

\* Variant: every requested login is reported as needing a fetch.
uncachedLogins_All(logins, cache) == logins

\* pinnedUserLogins.filter((login) => !pinnedUsersCache[login])
uncachedLogins(logins, cache) == SelectSeq(logins, LAMBDA l : cache[l] = NoEntry)

\* pinnedUserLogins.map((login) => pinnedUsersCache[login]).filter(Boolean)
pinnedUsers(logins, cache) ==
    LET mapped == [i \in DOMAIN logins |->
                      IF cache[logins[i]] = NoEntry
                      THEN <<>>
                      ELSE <<[login |-> logins[i], ver |-> cache[logins[i]]]>>]
        kept == SelectSeq(mapped, LAMBDA e : e # <<>>)
    IN  [i \in DOMAIN kept |-> kept[i][1]]

\* Variant: the spread of the old cache is forgotten.
CacheWith_OnlyUser(cache, user) ==
    [l \in Logins |-> IF l = user.login THEN user.ver ELSE NoEntry]

\* { ...pinnedUsersCache, [user.login]: user }
CacheWith(cache, user) == [cache EXCEPT ![user.login] = user.ver]

\* { ...pinnedUsersCache } with delete newCache[login]
CacheWithout(cache, login) == [cache EXCEPT ![login] = NoEntry]

\* The suspended setItem of savePinnedUsers(logins).
ListWrite(logins) ==
    [key |-> "pinned-users", logins |-> logins, cache |-> [l \in Logins |-> NoEntry],
     login |-> ""]

\* The suspended setItem of cacheUser(user) or removeCachedUser(login).
CacheWrite(cache, login) ==
    [key |-> "pinned-users-cache", logins |-> <<>>, cache |-> cache, login |-> login]

\* Variant: a user that is already pinned is appended again and cached.
togglePin_AlwaysPins(logins, cache, user) ==
    <<ListWrite(Append(logins, user.login)),
      CacheWrite(CacheWith(cache, user), user.login)>>

\* togglePin(user) on the pin list and the cache its closure holds: the two
\* writes it starts.
togglePin(logins, cache, user) ==
    IF Includes(logins, user.login)
    THEN <<ListWrite(Without(logins, user.login)),
           CacheWrite(CacheWithout(cache, user.login), user.login)>>
    ELSE <<ListWrite(Append(logins, user.login)),
           CacheWrite(CacheWith(cache, user), user.login)>>

\* isPinned(login)
isPinned(login) == Includes(pinnedUserLogins, login)

\* displayUsers: the search results (any user the server knows) or the
\* pinned users that are cached.
displayUsers ==
    IF searching
    THEN Users
    ELSE {pinnedUsers(pinnedUserLogins, pinnedUsersCache)[i] :
              i \in DOMAIN pinnedUsers(pinnedUserLogins, pinnedUsersCache)}

\* The latest togglePin call and, when the call before it was on the same
\* login with nothing else started in between, the pair: the user handed to
\* the latest call, the persisted list at the first call of the pair (before)
\* and at the latest call (at).
NoteToggle(user) ==
    IF hist # <<>> /\ hist[1].user.login = user.login /\ hist[1].n = 1
    THEN <<[hist[1] EXCEPT !.n = 2, !.user = user, !.at = storedLogins]>>
    ELSE <<[user |-> user, n |-> 1, before |-> storedLogins, at |-> storedLogins]>>

PinInit ==
    /\ storedLogins \in PinLists
    /\ storedCache \in Caches
    /\ pinnedUserLogins = <<>>
    /\ pinnedUsersCache = [l \in Logins |-> NoEntry]
    /\ pinLoad = "list"
    /\ searching = FALSE
    /\ pinFetch = <<>>
    /\ detail = <<>>
    /\ pending = <<>>
    /\ hist = <<>>
    /\ pinLast = "none"
    /\ listed = {l \in Logins : Includes(storedLogins, l) \/ storedCache[l] # NoEntry}
    /\ TrackerIdle
    /\ GoalIdle
    /\ SearchIdle
    /\ ErrIdle

pinFrame == <<trackerVars, goalVars, searchVars, errVars>>

\* usePinnedUsers(uncachedLogins, {execute: searchText.length === 0 &&
\* uncachedLogins.length > 0}) after a render with the given state: it keeps
\* what it is doing while its arguments are the same, fetches anew when the
\* logins or execute changed, and fetches nothing when not executed.
FetchAfter(logins, cache, search) ==
    LET was == uncachedLogins(pinnedUserLogins, pinnedUsersCache)
        wasExecuted == ~searching /\ was # <<>>
        missing == uncachedLogins(logins, cache)
        executed == ~search /\ missing # <<>>
    IN  IF ~executed THEN <<>>
        ELSE IF wasExecuted /\ missing = was THEN pinFetch
        ELSE <<missing>>

\* loadPinnedUsers: the first getItem resolves.
LoadListResolves ==
    /\ pinLoad = "list"
    /\ pinnedUserLogins' = storedLogins
    /\ pinLoad' = "cache"
    /\ pinFetch' = FetchAfter(storedLogins, pinnedUsersCache, searching)
    /\ UNCHANGED <<storedLogins, storedCache, pinnedUsersCache, searching,
                   detail, pending, hist, pinLast, listed, pinFrame>>

\* loadPinnedUsers: the second getItem resolves; isLoadingPinned becomes false.
LoadCacheResolves ==
    /\ pinLoad = "cache"
    /\ pinnedUsersCache' = storedCache
    /\ pinLoad' = "done"
    /\ pinFetch' = FetchAfter(pinnedUserLogins, storedCache, searching)
    /\ UNCHANGED <<storedLogins, storedCache, pinnedUserLogins, searching,
                   detail, pending, hist, pinLast, listed, pinFrame>>

\* onSearchTextChange: the search text becomes empty or non-empty.
SearchTextChanges ==
    /\ searching' = ~searching
    /\ pinFetch' = FetchAfter(pinnedUserLogins, pinnedUsersCache, ~searching)
    /\ UNCHANGED <<storedLogins, storedCache, pinnedUserLogins, pinnedUsersCache, pinLoad,
                   detail, pending, hist, pinLast, listed, pinFrame>>

\* The cacheUser calls of the effect on fetchedPinnedUsers, all made by one
\* render and so all spreading the same pinnedUsersCache.
CacheFetched(fetched) ==
    LET fresh == SelectSeq(fetched, LAMBDA u : pinnedUsersCache[u.login] = NoEntry)
    IN  [i \in DOMAIN fresh |-> CacheWrite(CacheWith(pinnedUsersCache, fresh[i]),
                                           fresh[i].login)]

\* The fetch delivers a snapshot of every login asked for; the effect runs.
PinnedFetchResolves(ver) ==
    LET fetched == [i \in DOMAIN pinFetch[1] |-> [login |-> pinFetch[1][i], ver |-> ver]]
    IN  /\ pinFetch # <<>>
        /\ Len(pending) + Len(CacheFetched(fetched)) <= MaxPending
        /\ pinFetch' = <<>>
        /\ pending' = pending \o CacheFetched(fetched)
        /\ hist' = IF CacheFetched(fetched) = <<>> THEN hist ELSE <<>>
        /\ UNCHANGED <<storedLogins, storedCache, pinnedUserLogins, pinnedUsersCache,
                       pinLoad, searching, detail, pinLast, listed, pinFrame>>

\* The fetch fails: no users are delivered.
PinnedFetchFails ==
    /\ pinFetch # <<>>
    /\ pinFetch' = <<>>
    /\ UNCHANGED <<storedLogins, storedCache, pinnedUserLogins, pinnedUsersCache, pinLoad,
                   searching, detail, pending, hist, pinLast, listed, pinFrame>>

\* The Pin User / Unpin User action of a grid item.
GridTogglePin(user) ==
    /\ pinLoad = "done"
    /\ user \in displayUsers
    /\ Len(pending) + 2 <= MaxPending
    /\ pending' = pending \o togglePin(pinnedUserLogins, pinnedUsersCache, user)
    /\ hist' = NoteToggle(user)
    /\ UNCHANGED <<storedLogins, storedCache, pinnedUserLogins, pinnedUsersCache, pinLoad,
                   searching, pinFetch, detail, pinLast, listed, pinFrame>>

\* Action.Push: the UserDetail element of the current render is pushed.
PushDetail(user) ==
    /\ pinLoad = "done"
    /\ detail = <<>>
    /\ user \in displayUsers
    /\ detail' = <<[user |-> user, logins |-> pinnedUserLogins, cache |-> pinnedUsersCache,
                    isPinned |-> isPinned(user.login)]>>
    /\ UNCHANGED <<storedLogins, storedCache, pinnedUserLogins, pinnedUsersCache, pinLoad,
                   searching, pinFetch, pending, hist, pinLast, listed, pinFrame>>

\* The detail view is popped.
PopDetail ==
    /\ detail # <<>>
    /\ detail' = <<>>
    /\ UNCHANGED <<storedLogins, storedCache, pinnedUserLogins, pinnedUsersCache, pinLoad,
                   searching, pinFetch, pending, hist, pinLast, listed, pinFrame>>

\* handleTogglePin: onTogglePin(user), then setIsPinned(!isPinned).
DetailTogglePin ==
    /\ detail # <<>>
    /\ Len(pending) + 2 <= MaxPending
    /\ pending' = pending \o togglePin(detail[1].logins, detail[1].cache, detail[1].user)
    /\ detail' = <<[detail[1] EXCEPT !.isPinned = ~@]>>
    /\ hist' = NoteToggle(detail[1].user)
    /\ UNCHANGED <<storedLogins, storedCache, pinnedUserLogins, pinnedUsersCache, pinLoad,
                   searching, pinFetch, pinLast, listed, pinFrame>>

\* useUser of the detail view delivers latestUser; the effect hands it to
\* onUserUpdate, the cacheUser of the render that pushed the view.
DetailUserFetched(ver) ==
    LET latestUser == [login |-> detail[1].user.login, ver |-> ver]
    IN  /\ detail # <<>>
        /\ detail[1].isPinned
        /\ Len(pending) + 1 <= MaxPending
        /\ pending' = Append(pending, CacheWrite(CacheWith(detail[1].cache, latestUser),
                                                 latestUser.login))
        /\ hist' = <<>>
        /\ UNCHANGED <<storedLogins, storedCache, pinnedUserLogins, pinnedUsersCache,
                       pinLoad, searching, pinFetch, detail, pinLast, listed, pinFrame>>

\* Variant: setPinnedUserLogins is called before the await of setItem.
savePinnedUsers_SetsFirst(logins, ok) ==
    IF ok
    THEN [stored |-> logins, memory |-> logins]
    ELSE [stored |-> storedLogins, memory |-> logins]

\* savePinnedUsers(logins) once its setItem has settled: the persisted and the
\* in-memory list.  A rejection is caught; neither list changes.
savePinnedUsers(logins, ok) ==
    IF ok
    THEN [stored |-> logins, memory |-> logins]
    ELSE [stored |-> storedLogins, memory |-> pinnedUserLogins]

\* cacheUser / removeCachedUser once their setItem has settled.
saveCache(cache, ok) ==
    IF ok
    THEN [stored |-> cache, memory |-> cache]
    ELSE [stored |-> storedCache, memory |-> pinnedUsersCache]

\* The oldest setItem settles and the code after its await, or the catch
\* block, runs.
WriteSettles(ok) ==
    /\ pending # <<>>
    /\ LET w == Head(pending)
       IN  IF w.key = "pinned-users"
           THEN /\ storedLogins' = savePinnedUsers(w.logins, ok).stored
                /\ pinnedUserLogins' = savePinnedUsers(w.logins, ok).memory
                /\ pinFetch' = FetchAfter(savePinnedUsers(w.logins, ok).memory,
                                          pinnedUsersCache, searching)
                /\ pinLast' = IF ok THEN "written" ELSE "listFailed"
                /\ listed' = listed \cup
                                 {l \in Logins :
                                      Includes(savePinnedUsers(w.logins, ok).stored, l)}
                /\ UNCHANGED <<storedCache, pinnedUsersCache>>
           ELSE /\ storedCache' = saveCache(w.cache, ok).stored
                /\ pinnedUsersCache' = saveCache(w.cache, ok).memory
                /\ pinFetch' = FetchAfter(pinnedUserLogins, saveCache(w.cache, ok).memory,
                                          searching)
                /\ pinLast' = IF ok THEN "written" ELSE "cacheFailed"
                /\ UNCHANGED <<storedLogins, pinnedUserLogins, listed>>
    /\ pending' = Tail(pending)
    /\ hist' = IF ok THEN hist ELSE <<>>
    /\ UNCHANGED <<pinLoad, searching, detail, pinFrame>>

\* LocalStorage.setItem resolves.
WriteResolves == WriteSettles(TRUE)

\* LocalStorage.setItem rejects.
WriteFails == WriteSettles(FALSE)

PinNext ==
    \/ LoadListResolves
    \/ LoadCacheResolves
    \/ SearchTextChanges
    \/ \E ver \in Versions : PinnedFetchResolves(ver)
    \/ PinnedFetchFails
    \/ \E user \in Users : GridTogglePin(user)
    \/ \E user \in Users : PushDetail(user)
    \/ PopDetail
    \/ DetailTogglePin
    \/ \E ver \in Versions : DetailUserFetched(ver)
    \/ WriteResolves
    \/ WriteFails

PinSpec == PinInit /\ [][PinNext]_vars

\* The grid left alone after its mount: the search text stays empty, no pin is
\* toggled, no detail view is opened, and every getItem, fetch and setItem
\* that is under way completes successfully in the end.
PinLiveNext ==
    \/ LoadListResolves
    \/ LoadCacheResolves
    \/ \E ver \in Versions : PinnedFetchResolves(ver)
    \/ WriteResolves

PinLiveSpec ==
    /\ PinInit
    /\ [][PinLiveNext]_vars
    /\ WF_vars(LoadListResolves)
    /\ WF_vars(LoadCacheResolves)
    /\ WF_vars(\E ver \in Versions : PinnedFetchResolves(ver))
    /\ WF_vars(WriteResolves)

\* ------------------------------------------------ part 4: login search
\* The single-user search commands (src/unnamed/part_000 and
\* src/src/check-logtime-history.tsx share this logic).  isAuthenticated,
\* isAuthenticating and authenticate come from the useUser hook, which is not
\* part of the sources: the Credential Manager is modelled from the
\* specification (NoToken -> Authenticating -> Authenticated -> Expired).
\* A handler runs with the values of the latest render.  The search bar of
\* the grid command (src/unnamed/part_001), which hands its text to useUsers
\* untrimmed, is followed next to them.

SearchTexts == {"", " ", "jdoe", "jdoe\n", "ab", "ab\n"}

\* text.trim()
Trim(text) ==
    CASE text = " " -> ""
      [] text = "jdoe\n" -> "jdoe"
      [] text = "ab\n" -> "ab"
      [] OTHER -> text

\* text.length
Length(text) ==
    CASE text = "" -> 0
      [] text = " " -> 1
      [] text = "ab" -> 2
      [] text = "ab\n" -> 3
      [] text = "jdoe" -> 4
      [] OTHER -> 5

\* text.endsWith("\n")
EndsWithNewline(text) == text \in {"jdoe\n", "ab\n"}

isAuthenticated == authState \in {"Authenticated", "Expired"}
isAuthenticating == authState = "Authenticating"

\* Variant: performSearch does not look at isAuthenticating.
NeedsAuthentication_IgnoresInFlight(authenticated, authenticating) == ~authenticated

\* The guard of performSearch before it calls authenticate().
NeedsAuthentication(authenticated, authenticating) == ~authenticated /\ ~authenticating

\* authenticate() of the Credential Manager: a valid token is returned at
\* once; a call while Authenticating awaits the attempt under way; otherwise
\* the call starts the interactive flow.  The result: state, outstanding
\* calls, flows under way.
authenticate ==
    CASE authState = "Authenticated" ->
             [state |-> authState, calls |-> authCalls, flows |-> authFlows]
      [] authState = "Authenticating" ->
             [state |-> authState, calls |-> authCalls + 1, flows |-> authFlows]
      [] OTHER ->
             [state |-> "Authenticating", calls |-> authCalls + 1, flows |-> authFlows + 1]

SearchInit ==
    /\ searchText = ""
    /\ queryText = ""
    /\ authState \in {"NoToken", "Authenticated"}
    /\ authCalls = 0
    /\ authFlows = 0
    /\ waiting = <<>>
    /\ skippedAuth = FALSE
    /\ gridSearchText = ""
    /\ usersQuery = <<>>
    /\ TrackerIdle
    /\ GoalIdle
    /\ PinIdle
    /\ ErrIdle

searchFrame == <<trackerVars, goalVars, pinVars, errVars, gridVars>>

\* Variant: setQueryText is called before authenticate() is awaited.
performSearch_QueryBeforeAuth(text) ==
    IF Trim(text) = ""
    THEN UNCHANGED <<queryText, authState, authCalls, authFlows, waiting, skippedAuth>>
    ELSE IF NeedsAuthentication(isAuthenticated, isAuthenticating)
         THEN /\ authCalls < MaxAuthCalls
              /\ Len(waiting) < MaxAuthCalls
              /\ authState' = authenticate.state
              /\ authCalls' = authenticate.calls
              /\ authFlows' = authenticate.flows
              /\ waiting' = Append(waiting, Trim(text))
              /\ queryText' = Trim(text)
              /\ UNCHANGED skippedAuth
         ELSE /\ queryText' = Trim(text)
              /\ skippedAuth' = (skippedAuth \/ isAuthenticating)
              /\ UNCHANGED <<authState, authCalls, authFlows, waiting>>

\* performSearch() of the latest render, whose searchText is text.
performSearch(text) ==
    IF Trim(text) = ""
    THEN UNCHANGED <<queryText, authState, authCalls, authFlows, waiting, skippedAuth>>
    ELSE IF NeedsAuthentication(isAuthenticated, isAuthenticating)
         THEN /\ authCalls < MaxAuthCalls
              /\ Len(waiting) < MaxAuthCalls
              /\ authState' = authenticate.state
              /\ authCalls' = authenticate.calls
              /\ authFlows' = authenticate.flows
              /\ waiting' = Append(waiting, Trim(text))
              /\ UNCHANGED <<queryText, skippedAuth>>
         ELSE /\ queryText' = Trim(text)
              /\ skippedAuth' = (skippedAuth \/ isAuthenticating)
              /\ UNCHANGED <<authState, authCalls, authFlows, waiting>>

\* onSearchTextChange: setSearchText(text) and, when the text ends with a
\* newline, performSearch() on the searchText of the render that is shown.
handleSearch(text) ==
    /\ searchText' = text
    /\ IF EndsWithNewline(text)
       THEN performSearch(searchText)
       ELSE UNCHANGED <<queryText, authState, authCalls, authFlows, waiting, skippedAuth>>
    /\ UNCHANGED searchFrame

\* The Search / Try Search Again action.
SearchAction ==
    /\ performSearch(searchText)
    /\ UNCHANGED <<searchText, searchFrame>>

\* The Authenticate action of the "Authentication Required" view, or the
\* Re-authenticate action of the error view after a 401.
AuthenticateAction ==
    /\ ~isAuthenticating
    /\ authState \in {"NoToken", "Expired"}
    /\ authCalls < MaxAuthCalls
    /\ authState' = authenticate.state
    /\ authCalls' = authenticate.calls
    /\ authFlows' = authenticate.flows
    /\ UNCHANGED <<searchText, queryText, waiting, skippedAuth, searchFrame>>

\* The attempt under way ends; every caller awaiting it resumes.  A
\* performSearch whose authenticate() resolved goes on to setQueryText; a
\* rejection ends it.
AuthSettles(ok) ==
    /\ isAuthenticating
    /\ authState' = IF ok THEN "Authenticated" ELSE "NoToken"
    /\ authCalls' = 0
    /\ authFlows' = 0
    /\ queryText' = IF ok /\ waiting # <<>> THEN waiting[Len(waiting)] ELSE queryText
    /\ waiting' = <<>>
    /\ UNCHANGED <<searchText, skippedAuth, searchFrame>>

\* The Gateway observes a 401 for the query: the token is no longer valid.
TokenRejected ==
    /\ authState = "Authenticated"
    /\ queryText # ""
    /\ authState' = "Expired"
    /\ UNCHANGED <<searchText, queryText, authCalls, authFlows, waiting, skippedAuth,
                   searchFrame>>

\* Variant: useUsers is executed whatever the search text.
ExecuteUsers_Always(text) == TRUE

\* The execute option of useUsers in the grid command.
ExecuteUsers(text) == Length(text) > 0

\* The execute option of useUser in the two search commands.
ExecuteUser(text) == Length(text) > 0

GridTexts == {"", " ", "ab"}

\* onSearchTextChange of the grid: setSearchText(text); the next render
\* hands the text to useUsers, executed or not.
GridSearchTextChanges(text) ==
    /\ text # gridSearchText
    /\ gridSearchText' = text
    /\ usersQuery' = IF ExecuteUsers(text) THEN <<text>> ELSE <<>>
    /\ UNCHANGED <<searchText, queryText, authState, authCalls, authFlows, waiting,
                   skippedAuth, trackerVars, goalVars, pinVars, errVars>>

SearchNext ==
    \/ \E text \in SearchTexts : handleSearch(text)
    \/ \E text \in GridTexts : GridSearchTextChanges(text)
    \/ SearchAction
    \/ AuthenticateAction
    \/ \E ok \in BOOLEAN : AuthSettles(ok)
    \/ TokenRejected

SearchSpec == SearchInit /\ [][SearchNext]_vars

\* ------------------------------------------------- part 5: failed fetches

\* The failures of the Remote Stats Gateway and the text of their messages,
\* word by word; "value" is a thrown value that is not an Error.
ErrorValues ==
    { [kind |-> "Unauthorized", message |-> <<"401", "Unauthorized">>],
      [kind |-> "Unauthorized", message |-> <<"unauthorized">>],
      [kind |-> "Forbidden", message |-> <<"403", "Forbidden">>],
      [kind |-> "Forbidden", message |-> <<"Forbidden">>],
      [kind |-> "NotFound", message |-> <<"404", "Not", "Found">>],
      [kind |-> "NotFound", message |-> <<"User", "not", "found">>],
      [kind |-> "Transient", message |-> <<"Request", "timeout">>],
      [kind |-> "Transient", message |-> <<"500", "Internal", "Server", "Error">>],
      [kind |-> "value", message |-> <<>>] }

Commands == {"search", "history"}

UnknownMessage == <<"An", "unknown", "error", "occurred">>

\* error instanceof Error ? error.message : "An unknown error occurred"
errorMessage(error) == IF error.kind = "value" THEN UnknownMessage ELSE error.message

\* message.includes(word)
MessageIncludes(message, word) == \E i \in 1..Len(message) : message[i] = word

ReauthenticateActions == <<"Re-authenticate", "Open Extension Preferences">>
RetryActions == <<"Try Search Again">>
ForbiddenActions == <<"Open Extension Preferences", "Try Search Again">>
AuthenticateActions == <<"Authenticate", "Open Extension Preferences">>

IsUnauthorizedMessage(message) ==
    MessageIncludes(message, "unauthorized") \/ MessageIncludes(message, "Unauthorized")

IsForbiddenMessage(message) ==
    MessageIncludes(message, "Forbidden") \/ MessageIncludes(message, "403")

\* getErrorDetails() of the search command; <<>> is null.
getErrorDetailsSearch(error) ==
    IF error = NoError THEN <<>>
    ELSE IF IsUnauthorizedMessage(errorMessage(error))
         THEN <<[title |-> "Authentication Error", actions |-> ReauthenticateActions]>>
         ELSE <<[title |-> "User Not Found", actions |-> RetryActions]>>

\* getErrorDetails() of the logtime history command; error = userError || statsError.
getErrorDetailsHistory(uError, sError) ==
    LET error == IF uError # NoError THEN uError ELSE sError
    IN  IF error = NoError THEN <<>>
        ELSE IF IsUnauthorizedMessage(errorMessage(error))
             THEN <<[title |-> "Authentication Error", actions |-> ReauthenticateActions]>>
             ELSE IF uError # NoError
                  THEN <<[title |-> "User Not Found", actions |-> RetryActions]>>
                  ELSE IF IsForbiddenMessage(errorMessage(error))
                       THEN <<[title |-> "Access Forbidden", actions |-> ForbiddenActions]>>
                       ELSE <<[title |-> "Error", actions |-> RetryActions]>>

getErrorDetails(cmd, uError, sError) ==
    IF cmd = "search" THEN getErrorDetailsSearch(uError)
    ELSE getErrorDetailsHistory(uError, sError)

\* The empty view the render chooses: authentication required, else the
\* error details, else none of the two.
Rendered(cmd, state, uError, sError) ==
    IF state = "NoToken"
    THEN <<[title |-> "Authentication Required", actions |-> AuthenticateActions]>>
    ELSE getErrorDetails(cmd, uError, IF cmd = "search" THEN NoError ELSE sError)

\* A query has been submitted with a valid token; nothing has failed yet.
ErrInit ==
    /\ command \in Commands
    /\ userError = NoError
    /\ statsError = NoError
    /\ view = <<>>
    /\ searchText = "jdoe"
    /\ queryText = "jdoe"
    /\ authState = "Authenticated"
    /\ authCalls = 0
    /\ authFlows = 0
    /\ waiting = <<>>
    /\ skippedAuth = FALSE
    /\ gridSearchText = ""
    /\ usersQuery = <<>>
    /\ TrackerIdle
    /\ GoalIdle
    /\ PinIdle

errFrame == <<trackerVars, goalVars, pinVars, command, searchText, queryText, authCalls,
              authFlows, waiting, skippedAuth, gridVars>>

\* The state the hook reports after a fetch failed with e: a 401 makes the
\* Credential Manager drop the token, which the hook reports at once
\* (NoToken) or only later (Expired).
AfterFailure(e) ==
    IF e.kind = "Unauthorized" THEN {"NoToken", "Expired"} ELSE {authState}

\* useUser's fetch of queryText fails with e.  No user, so the stats fetch
\* is not executed; its hook drops or keeps the error it held.
UserFetchFails(e) ==
    /\ authState = "Authenticated"
    /\ userError' = e
    /\ statsError' \in {NoError, statsError}
    /\ authState' \in AfterFailure(e)
    /\ view' = Rendered(command, authState', userError', statsError')
    /\ UNCHANGED errFrame

\* useUser's fetch succeeds.
UserFetchSucceeds ==
    /\ authState = "Authenticated"
    /\ userError # NoError
    /\ userError' = NoError
    /\ view' = Rendered(command, authState, userError', statsError)
    /\ UNCHANGED <<statsError, authState, errFrame>>

\* useLocationStats's fetch for the fetched user fails with e.
StatsFetchFails(e) ==
    /\ command = "history"
    /\ authState = "Authenticated"
    /\ userError = NoError
    /\ statsError' = e
    /\ authState' \in AfterFailure(e)
    /\ view' = Rendered(command, authState', userError, statsError')
    /\ UNCHANGED <<userError, errFrame>>

\* useLocationStats's fetch succeeds.
StatsFetchSucceeds ==
    /\ command = "history"
    /\ authState = "Authenticated"
    /\ userError = NoError
    /\ statsError # NoError
    /\ statsError' = NoError
    /\ view' = Rendered(command, authState, userError, statsError')
    /\ UNCHANGED <<userError, authState, errFrame>>

\* Authenticate / Re-authenticate completes: a valid token again, and the
\* fetches start over.
Reauthenticated ==
    /\ authState \in {"NoToken", "Expired"}
    /\ authState' = "Authenticated"
    /\ userError' = NoError
    /\ statsError' = NoError
    /\ view' = Rendered(command, authState', userError', statsError')
    /\ UNCHANGED errFrame

ErrorNext ==
    \/ \E e \in ErrorValues : UserFetchFails(e)
    \/ UserFetchSucceeds
    \/ \E e \in ErrorValues : StatsFetchFails(e)
    \/ StatsFetchSucceeds
    \/ Reauthenticated

ErrorSpec == ErrInit /\ [][ErrorNext]_vars

\* ---------------------------------------------------------------- claims

\* The stored state the last cycle step found, an absent item read as the
\* initial state; the goal and the marker of that cycle.
FoundState ==
    IF last.before = <<>>
    THEN [lastTriggeredDate |-> NoDate, lastLogtimeSeconds |-> 0, lastLogtimeDate |-> NoDate]
    ELSE last.before[1]
FoundLastKnown ==
    IF FoundState.lastLogtimeDate # last.cyc.D THEN 0 ELSE FoundState.lastLogtimeSeconds
CycleGoalSeconds == last.cyc.gh * 3600 + last.cyc.gm * 60
CelebratedRecord ==
    [lastTriggeredDate |-> last.cyc.D, lastLogtimeSeconds |-> last.cyc.logtime,
     lastLogtimeDate |-> last.cyc.D]

\* C1: as long as evaluation cycles never overlap, triggerConfetti is invoked at
\* most once for every calendar date, whatever the readings and goal changes.
C1_AtMostOncePerDay == ~overlapped => \A d \in Dates : fireCount[d] <= 1

\* C1 witness: without overlap, a later cycle on an already celebrated date
\* found the goal reached (under another goal than the one celebrated) and did
\* not fire.
C1_Witness ==
    /\ ~overlapped
    /\ last.kind = "decide"
    /\ fireCount[last.cyc.D] = 1
    /\ FoundState.lastTriggeredDate = last.cyc.D
    /\ last.cyc.goalReached
    /\ FoundState.lastLogtimeSeconds < CycleGoalSeconds
    /\ ~last.cyc.fired

\* C2: a cycle that is not skipped fires iff goalReached, the stored
\* lastTriggeredDate differs from D and the last known logtime (0 on a new day,
\* else the stored lastLogtimeSeconds) is below goalHours*3600 + goalMinutes*60;
\* an absent stored state counts as {"", 0, ""}.
C2_FireCondition ==
    last.kind = "decide" =>
        (last.cyc.fired <=>
            /\ last.cyc.goalReached
            /\ FoundState.lastTriggeredDate # last.cyc.D
            /\ FoundLastKnown < CycleGoalSeconds)

\* C2 witness: a cycle that found no stored state fired.
C2_Witness ==
    /\ last.kind = "decide"
    /\ last.before = <<>>
    /\ last.cyc.goalReached
    /\ last.cyc.fired

\* C3 (as stated): every write that sets lastTriggeredDate (changes it to a
\* date, or is the write of a firing cycle) is the write of a cycle that fired
\* on that date, and the marker did not already hold that date.
C3_MarkerSetOnlyOnce ==
    last.kind = "write" =>
        LET new == confettiState[1].lastTriggeredDate
            old == FoundState.lastTriggeredDate
        IN  (new # NoDate /\ (new # old \/ last.cyc.fired)) =>
                (last.cyc.fired /\ last.cyc.D = new /\ old # new)

\* C4 (as stated): an effect run of a background launch with both fetches
\* complete and stats present starts an evaluation cycle.
C4_BackgroundRunsCycle ==
    (last.kind \in {"skip", "start"} /\ isBackgroundMode(launchType)
        /\ ~last.loading /\ last.stats) => last.kind = "start"

\* C4 (amended): an effect run starts an evaluation cycle exactly when the
\* launch is not a background launch, no fetch is loading and stats are present.
C4_CycleOnlyOutsideBackground ==
    last.kind \in {"skip", "start"} =>
        (last.kind = "start" <=>
            ~isBackgroundMode(launchType) /\ ~last.loading /\ last.stats)

\* C4 witness: a background launch with fetched stats whose effect run was skipped.
C4_Witness ==
    /\ last.kind = "skip"
    /\ isBackgroundMode(launchType)
    /\ ~last.loading
    /\ last.stats

\* Cycles that have read the store and not yet finished, the reader excepted.
PastReadCount ==
    LET S == {c \in BagToSet(cycles) : c.pc \in {"confetti", "setItem"}}
    IN  BagCardinality(cycles) - BagCardinality([c \in BagToSet(cycles) \ S |-> cycles[c]])

\* C5 (as stated): when a cycle reads the stored state, every cycle that read it
\* earlier has completed its side effect and its write-back.
C5_NotReentrant ==
    last.kind = "decide" =>
        PastReadCount <= (IF last.cyc.pc \in {"confetti", "setItem"} THEN 1 ELSE 0)

\* C6 (as stated): also when cycles race, the celebration is invoked at most once
\* per date and the write of a non-firing cycle never replaces a stored
\* lastTriggeredDate = D by another value.
C6_RaceStillAtMostOnce ==
    /\ \A d \in Dates : fireCount[d] <= 1
    /\ (last.kind = "write" /\ ~last.cyc.fired) =>
           (FoundState.lastTriggeredDate = last.cyc.D =>
                confettiState[1].lastTriggeredDate = last.cyc.D)

\* C7: the first cycle to evaluate on a date fires when the goal is reached,
\* whatever state the previous date left in the store.
C7_NewDayFires ==
    (last.kind = "decide" /\ last.first /\ last.cyc.goalReached) => last.cyc.fired

\* C7 witness: on the second date the first cycle found the previous date
\* celebrated with a logtime at or above the goal, and fired.
C7_Witness ==
    /\ last.kind = "decide"
    /\ last.first
    /\ last.cyc.D > 1
    /\ last.before # <<>>
    /\ FoundState.lastTriggeredDate = last.cyc.D - 1
    /\ FoundState.lastLogtimeDate = last.cyc.D - 1
    /\ FoundState.lastLogtimeSeconds >= CycleGoalSeconds
    /\ last.cyc.goalReached
    /\ last.cyc.fired

\* C8: with the stored logtime of date D already at or above the goal and no
\* celebration on D yet, the cycle does not fire; with the stored logtime of D
\* below the goal and the reading at or above it, the cycle fires.
C8_GoalLoweringGuard ==
    (last.kind = "decide" /\ FoundState.lastLogtimeDate = last.cyc.D
        /\ FoundState.lastTriggeredDate # last.cyc.D) =>
        /\ FoundState.lastLogtimeSeconds >= CycleGoalSeconds => ~last.cyc.fired
        /\ (FoundState.lastLogtimeSeconds < CycleGoalSeconds
                /\ last.cyc.logtime >= CycleGoalSeconds) => last.cyc.fired

\* C8 witness: no new activity since the stored reading of D, which is at or
\* above the current goal but below the default goal; goal reached, not fired.
C8_Witness ==
    /\ last.kind = "decide"
    /\ FoundState.lastLogtimeDate = last.cyc.D
    /\ FoundState.lastTriggeredDate # last.cyc.D
    /\ FoundState.lastLogtimeSeconds = last.cyc.logtime
    /\ FoundState.lastLogtimeSeconds >= CycleGoalSeconds
    /\ FoundState.lastLogtimeSeconds < GoalSeconds(DefaultGoalHours, DefaultGoalMinutes)
    /\ last.cyc.goalReached
    /\ ~last.cyc.fired

\* C9 (as stated): a non-firing cycle writes iff its reading or date differs from
\* the stored ones, and its write sets lastLogtimeSeconds and lastLogtimeDate to
\* its inputs and leaves the stored lastTriggeredDate as it was.
C9_NoFireUpdate ==
    /\ (last.kind = "decide" /\ ~last.cyc.fired) =>
           (last.cyc.pc = "setItem" <=>
                \/ FoundState.lastLogtimeSeconds # last.cyc.logtime
                \/ FoundState.lastLogtimeDate # last.cyc.D)
    /\ (last.kind = "write" /\ ~last.cyc.fired) =>
           /\ confettiState[1].lastLogtimeSeconds = last.cyc.logtime
           /\ confettiState[1].lastLogtimeDate = last.cyc.D
           /\ confettiState[1].lastTriggeredDate = FoundState.lastTriggeredDate

\* C10: the write of a firing cycle stores exactly {D, todayLogtimeSeconds, D},
\* and once open(...) settled, resolved or rejected, the cycle goes on to that
\* write.
C10_FireRecorded ==
    /\ (last.kind = "write" /\ last.cyc.fired) => confettiState = <<CelebratedRecord>>
    /\ last.kind = "confetti" =>
           /\ BagIn(last.cyc, cycles)
           /\ last.cyc.pc = "setItem"
           /\ last.cyc.pending = CelebratedRecord

\* C10 witness: the confetti action failed and the day was recorded as celebrated.
C10_Witness ==
    /\ last.kind = "write"
    /\ last.cyc.fired
    /\ ~last.cyc.confettiOk
    /\ confettiState = <<CelebratedRecord>>

\* C11 (as stated): while the latest render is loading or has no stats (its
\* effect run was just skipped for that reason) no step of any cycle happens:
\* no read of the stored state, no celebration, no write.
C11_NoStepWhileLoading ==
    [][(last.kind = "skip" /\ (last.loading \/ ~last.stats)) =>
           last'.kind \notin {"decide", "confetti", "write"}]_vars

\* C11: an effect run whose render is loading (user or stats fetch) or has no
\* stats starts no cycle and leaves the store, the suspended cycles and the
\* celebration count as they are; every cycle that starts comes from a render
\* that is not loading and has stats, so its reading is never the transient zero.
C11_NoEvaluationWhileLoading ==
    [][/\ (last'.kind = "skip" /\ (last'.loading \/ ~last'.stats)) =>
              (cycles' = cycles /\ confettiState' = confettiState /\ fireCount' = fireCount)
       /\ (last'.kind \in {"skip", "start"} /\ (last'.loading \/ ~last'.stats)) =>
              last'.kind = "skip"
       /\ BagCardinality(cycles') > BagCardinality(cycles) =>
              (last'.kind = "start" /\ ~last'.loading /\ last'.stats)]_vars

\* C11 witness: outside background mode a render with stats present but a fetch
\* still loading was skipped while the store already holds a state.
C11_Witness ==
    /\ last.kind = "skip"
    /\ ~isBackgroundMode(launchType)
    /\ last.loading
    /\ last.stats
    /\ confettiState # <<>>

\* C12: every completed cycle leaves its reading and date in the store (by its
\* write, or because it wrote nothing as they were there already), and a cycle
\* that finds its own reading and date in the store (a run repeated with the
\* same inputs) neither fires nor writes, so the stored state stays as it was.
C12_IdempotentWrites ==
    /\ last.kind = "write" =>
           /\ confettiState[1].lastLogtimeSeconds = last.cyc.logtime
           /\ confettiState[1].lastLogtimeDate = last.cyc.D
    /\ (last.kind = "decide" /\ FoundState.lastLogtimeSeconds = last.cyc.logtime
            /\ FoundState.lastLogtimeDate = last.cyc.D) =>
           (~last.cyc.fired /\ last.cyc.pc = "idle")
    /\ (last.kind = "decide" /\ last.cyc.pc = "idle") =>
           /\ FoundState.lastLogtimeSeconds = last.cyc.logtime
           /\ FoundState.lastLogtimeDate = last.cyc.D

\* C12 witness: after a celebration on D, a second run with the same reading on
\* D found the goal reached, did not fire and wrote nothing.
C12_Witness ==
    /\ last.kind = "decide"
    /\ ~overlapped
    /\ fireCount[last.cyc.D] = 1
    /\ FoundState = CelebratedRecord
    /\ last.cyc.goalReached
    /\ ~last.cyc.fired
    /\ last.cyc.pc = "idle"

\* C13 (as stated): the goal a render uses equals the configured value whenever
\* goalHours is a numeral >= 0 and goalMinutes a numeral in 0..59, zero
\* included, and is the default (6 hours, 39 minutes) for every other string.
C13_ConfiguredGoalUsed ==
    goalUsed # <<>> =>
        LET g == goalUsed[1]
            h == goalPrefs.goalHours
            m == goalPrefs.goalMinutes
            validHours == h \in NumericStrings /\ ToNumber(h)[1] >= 0
            validMinutes == m \in NumericStrings /\ ToNumber(m)[1] \in 0..59
        IN  /\ g.goalHours = IF validHours THEN ToNumber(h)[1] ELSE DefaultGoalHours
            /\ g.goalMinutes = IF validMinutes THEN ToNumber(m)[1] ELSE DefaultGoalMinutes

\* C14 (as stated): once togglePin has been called twice on the same login,
\* with no other call in between, and every write it started has been applied,
\* the persisted list is what it was before the first call and the persisted
\* cache has no entry for that login.
C14_DoubleToggleRestores ==
    (hist # <<>> /\ hist[1].n = 2 /\ pending = <<>>) =>
        /\ storedLogins = hist[1].before
        /\ storedCache[hist[1].user.login] = NoEntry

\* C15 (as stated): once the writes of the latest togglePin(user) call have
\* been applied, a login that was in the persisted list at the call is gone from it
\* and has no cache entry; a login that was not is appended at the end of the
\* list as it was, and its cache entry is the given snapshot.
C15_TogglePinEffect ==
    (hist # <<>> /\ pending = <<>>) =>
        LET u == hist[1].user
            before == hist[1].at
        IN  IF Includes(before, u.login)
            THEN storedLogins = Without(before, u.login) /\ storedCache[u.login] = NoEntry
            ELSE storedLogins = Append(before, u.login) /\ storedCache[u.login] = u.ver

\* C16 (as stated): when the write of a cacheUser(user) or removeCachedUser(login)
\* call is applied, the persisted cache entry of every other login is what it
\* was just before: no entry of another login is lost, changed or brought back.
C16_CacheWriteTouchesOneEntry ==
    [][(/\ pending # <<>>
        /\ Head(pending).key = "pinned-users-cache"
        /\ pending' = Tail(pending)
        /\ pinLast' = "written") =>
           \A l \in Logins \ {Head(pending).login} : storedCache'[l] = storedCache[l]]_vars

\* Every login of the pin list has a snapshot, in memory and in the store.
AllPinnedCached ==
    /\ pinLoad = "done"
    /\ \A i \in DOMAIN pinnedUserLogins :
           /\ pinnedUsersCache[pinnedUserLogins[i]] # NoEntry
           /\ storedCache[pinnedUserLogins[i]] # NoEntry

PositionIn(logins, login) == CHOOSE k \in DOMAIN logins : logins[k] = login

\* A sequence of logins taken from a list keeps the order of the list.
InPinOrder(part, logins) ==
    \A i, j \in DOMAIN part :
        i < j => PositionIn(logins, part[i]) < PositionIn(logins, part[j])

\* C18: for the pin list and the cache of any render, uncachedLogins is exactly
\* the pinned logins without a cache entry and pinnedUsers exactly the cached
\* snapshots of the pinned logins that have one, both in pin order; the two
\* parts share no login and together have one element per pinned login; with
\* only "a" cached the list ["a","b"] gives cached [User_a], missing ["b"].
C18_ResolveSplits ==
    LET logins == pinnedUserLogins
        cache == pinnedUsersCache
        missing == uncachedLogins(logins, cache)
        cached == pinnedUsers(logins, cache)
        pinned == {logins[i] : i \in DOMAIN logins}
        cachedLogins == [i \in DOMAIN cached |-> cached[i].login]
    IN  /\ {missing[i] : i \in DOMAIN missing} = {l \in pinned : cache[l] = NoEntry}
        /\ {cachedLogins[i] : i \in DOMAIN cached} = {l \in pinned : cache[l] # NoEntry}
        /\ \A i \in DOMAIN cached : cached[i].ver = cache[cached[i].login]
        /\ Len(missing) + Len(cached) = Len(logins)
        /\ InPinOrder(missing, logins)
        /\ InPinOrder(cachedLogins, logins)
        /\ (logins = <<"a", "b">> /\ cache["a"] # NoEntry /\ cache["b"] = NoEntry) =>
               (cached = <<[login |-> "a", ver |-> cache["a"]]>> /\ missing = <<"b">>)

\* C18 witness: the list ["a","b"] is rendered with only "a" cached, and the
\* fetch of the missing part, ["b"], is under way.
C18_Witness ==
    /\ pinLoad = "done"
    /\ pinnedUserLogins = <<"a", "b">>
    /\ pinnedUsersCache["a"] # NoEntry
    /\ pinnedUsersCache["b"] = NoEntry
    /\ pinFetch = <<uncachedLogins(pinnedUserLogins, pinnedUsersCache)>>

C20_SingleAuthentication == authCalls <= 1 /\ authFlows <= 1

\* C20 witness: while the one authenticate() call of a search submission is
\* outstanding, a further performSearch has run and called it no second time.
C20_Witness ==
    /\ isAuthenticating
    /\ authCalls = 1
    /\ authFlows = 1
    /\ waiting # <<>>
    /\ skippedAuth

\* The failure the latest render found: userError || statsError.
Failure == IF userError # NoError THEN userError ELSE statsError

HasAction(v, title) == \E i \in 1..Len(v.actions) : v.actions[i] = title

Remediable(v) ==
    \/ HasAction(v, "Re-authenticate")
    \/ HasAction(v, "Authenticate")
    \/ HasAction(v, "Open Extension Preferences")

\* C21 (as stated): every Unauthorized or Forbidden/403 failure, of the user
\* fetch or of the stats fetch, is shown with a re-authenticate or an open
\* preferences action; every other failure is shown with a retry action.
C21_FailuresRemediable ==
    Failure # NoError =>
        /\ view # <<>>
        /\ IF Failure.kind \in {"Unauthorized", "Forbidden"}
           THEN Remediable(view[1])
           ELSE HasAction(view[1], "Try Search Again")

\* C22: the user fetch of the search commands and the user search of the grid
\* are never executed with an empty query: queryText only ever changes to a
\* non-empty trimmed text, and the grid's query is a non-empty search text.
C22_NoEmptyQuery ==
    /\ [](ExecuteUser(queryText) => queryText # "" /\ Trim(queryText) = queryText)
    /\ [](usersQuery # <<>> => usersQuery[1] # "" /\ usersQuery[1] = gridSearchText)
    /\ [][queryText' # queryText => queryText' # "" /\ Trim(queryText') = queryText']_vars

\* C22 witness: a query is being fetched after a blank text was entered in
\* the search bar, and the grid's search bar was emptied again.
C22_Witness ==
    /\ queryText = "jdoe"
    /\ searchText = " "
    /\ gridSearchText = ""
    /\ usersQuery = <<>>
    /\ authState = "Authenticated"

\* A togglePin call was made in this step.
ToggleStep == hist' # hist /\ hist' # <<>>

\* The two writes of a togglePin call: the list write first, then the cache
\* write for the toggled login.
ListWriteFirst ==
    LET k == Len(pending)
    IN  /\ Len(pending') = k + 2
        /\ pending'[k + 1].key = "pinned-users"
        /\ pending'[k + 2].key = "pinned-users-cache"
        /\ pending'[k + 2].login = hist'[1].user.login

\* Every login with a persisted cache entry has been in the persisted list.
CachedWasListed == \A l \in Logins : storedCache[l] # NoEntry => l \in listed

\* The persisted state a crash between the two writes of a pin leaves behind:
\* the login is in the list, its snapshot is not in the cache, and the write
\* of the snapshot is the next to be made.
BetweenPinWrites ==
    /\ pending # <<>>
    /\ Head(pending).key = "pinned-users-cache"
    /\ Head(pending).cache[Head(pending).login] # NoEntry
    /\ Includes(storedLogins, Head(pending).login)
    /\ storedCache[Head(pending).login] = NoEntry

\* C23 (as stated): togglePin starts the write of the login list before the
\* write of the cache in both branches, and no persisted state has a cache
\* entry for a login that was never written to the list.  (That the two
\* writes are no transaction is the reachability of BetweenPinWrites.)
C23_ListBeforeCache ==
    /\ [][ToggleStep => ListWriteFirst]_vars
    /\ []CachedWasListed

NoDuplicates(logins) ==
    \A i \in DOMAIN logins : \A j \in DOMAIN logins : i # j => logins[i] # logins[j]

\* C24: loaded from a list without duplicates, neither the persisted nor the
\* in-memory pin list ever holds a login twice, whatever togglePin calls are
\* made from the grid and from a pushed UserDetail view and however they
\* interleave with the completion of earlier list writes.
C24_NoDuplicateLogins ==
    /\ NoDuplicates(storedLogins)
    /\ NoDuplicates(pinnedUserLogins)

\* C24 witness: a login that was not in the list has been toggled twice in a
\* row, the second time from a detail view whose pin list is the one from
\* before the first call; both calls appended it, both writes are done and
\* the persisted list holds it.
C24_Witness ==
    /\ hist # <<>>
    /\ hist[1].n = 2
    /\ ~Includes(hist[1].before, hist[1].user.login)
    /\ detail # <<>>
    /\ detail[1].user.login = hist[1].user.login
    /\ ~Includes(detail[1].logins, hist[1].user.login)
    /\ pending = <<>>
    /\ pinLast = "written"
    /\ Includes(storedLogins, hist[1].user.login)
    /\ Includes(pinnedUserLogins, hist[1].user.login)

\* A step of the Search action or of onSearchTextChange.
SearchStep == SearchAction \/ \E text \in SearchTexts : handleSearch(text)

\* C25: a performSearch that finds the session neither authenticated nor
\* authenticating leaves queryText alone until its authenticate() call has
\* resolved, and then sets it; when authenticate() rejects, queryText stays as
\* it is; a performSearch on a blank searchText neither authenticates nor
\* changes queryText.
C25_QueryAfterAuthentication ==
    /\ [][NeedsAuthentication(isAuthenticated, isAuthenticating) =>
              queryText' = queryText]_vars
    /\ [][(waiting # <<>> /\ waiting' = <<>>) =>
              IF authState' = "Authenticated"
              THEN queryText' = waiting[Len(waiting)]
              ELSE queryText' = queryText]_vars
    /\ [][(SearchStep /\ Trim(searchText) = "") =>
              UNCHANGED <<queryText, authState, authCalls, authFlows, waiting>>]_vars

\* C25 witness: a performSearch on a non-blank text has called authenticate()
\* and is suspended on it; no query has been set yet.
C25_Witness ==
    /\ isAuthenticating
    /\ authCalls = 1
    /\ waiting = <<"jdoe">>
    /\ queryText = ""
    /\ ~skippedAuth

\* C26 (as stated): a search submitted through handleSearch(text), the text
\* ending with a newline, queries that text: once the call has completed
\* (the session being authenticated, it completes at once) queryText is the
\* trimmed text just entered.
C26_SubmitsEnteredText ==
    [][\A text \in SearchTexts :
           (handleSearch(text) /\ EndsWithNewline(text)
                /\ ~NeedsAuthentication(isAuthenticated, isAuthenticating)) =>
               queryText' = Trim(text)]_vars

====
